---- MODULE Spec2Model ----
(***************************************************************************)
(* Model of scrape_image.py: the pipeline main -> get_wiki_page_id ->      *)
(* get_wiki_image_url (locator half, extractor half) -> print, with the    *)
(* predicate viewable_image and the two regular expressions it uses.       *)
(*                                                                         *)
(* Strings the code inspects character by character (src attributes) are   *)
(* sequences of one-character strings. An uncaught Python exception is an  *)
(* outcome [ok |-> FALSE, exc |-> <class name>]; main catches nothing, so  *)
(* it ends the run.                                                        *)
(***************************************************************************)
EXTENDS Naturals, Sequences, FiniteSets

VARIABLES
  world,        \* what the network serves in this run: term, search, page, image_page
  pc,           \* position of the single thread of control
  page_id,      \* main's page_id (<<>> until get_wiki_page_id returned)
  image_ref,    \* get_wiki_image_url's image_url as assigned at line 73 or 75
  image_url,    \* get_wiki_image_url's image_url as it stands at line 87
  requests,     \* the calls of requests.get made so far, in order
  scanned,      \* TRUE once page_content.find_all(viewable_image) was invoked
  stdout,       \* what print wrote
  err           \* the uncaught exception that ended the run, or NoErr

vars == <<world, pc, page_id, image_ref, image_url, requests, scanned, stdout, err>>

\* ------------------------------------------------------------------ bounds
MaxResults == 2     \* longest search result list served
MaxElems == 2       \* most elements on an article page besides the infobox

\* ----------------------------------------------------------------- strings
UpperCase == <<"A","B","C","D","E","F","G","H","I","J","K","L","M",
               "N","O","P","Q","R","S","T","U","V","W","X","Y","Z">>
LowerCase == <<"a","b","c","d","e","f","g","h","i","j","k","l","m",
               "n","o","p","q","r","s","t","u","v","w","x","y","z">>

\* str.lower(), one character
LowerChar(c) ==
  IF \E i \in DOMAIN UpperCase : UpperCase[i] = c
  THEN LowerCase[CHOOSE i \in DOMAIN UpperCase : UpperCase[i] = c]
  ELSE c

\* str.lower()
lower(s) == [i \in 1..Len(s) |-> LowerChar(s[i])]

\* the literal lit occurs in s starting at position i
LitAt(lit, s, i) ==
  /\ i >= 1
  /\ i + Len(lit) - 1 <= Len(s)
  /\ \A k \in 1..Len(lit) : s[i + k - 1] = lit[k]

\* Python's $ without re.MULTILINE, tried at position i (the next character
\* to read): the end of the string, or just before a newline that ends it
Dollar(s, i) ==
  \/ i = Len(s) + 1
  \/ i = Len(s) /\ s[i] = "\n"

\* re.search("http", s)
search_http(s) == \E i \in 1..Len(s) : LitAt(<<"h","t","t","p">>, s, i)

\* regex_viewable = "(jpg|jpeg|gif|png)$"
ViewableAlternatives ==
  { <<"j","p","g">>, <<"j","p","e","g">>, <<"g","i","f">>, <<"p","n","g">> }

\* re.search(regex_viewable, s): an alternative somewhere, followed by $
regex_viewable(s) ==
  \E i \in 1..Len(s) : \E lit \in ViewableAlternatives :
     LitAt(lit, s, i) /\ Dollar(s, i + Len(lit))

\* re.search(regex_not_viewable, s), regex_not_viewable = "^((?!svg).)*$":
\* from position 1, k characters each of which is not a newline and does not
\* start the literal svg, and then $
regex_not_viewable(s) ==
  \E k \in 0..Len(s) :
     /\ \A i \in 1..k : s[i] # "\n" /\ ~LitAt(<<"s","v","g">>, s, i)
     /\ Dollar(s, k + 1)

\* ---------------------------------------------------------------- outcomes
Ok(v) == [ok |-> TRUE, val |-> v]
Raise(e) == [ok |-> FALSE, exc |-> e]
NoErr == "NoErr"

\* Tag.__getitem__: tag[key] raises KeyError when the attribute is absent
HasAttr(tag, key) == key \in DOMAIN tag.attrs

\* viewable_image(tag): "true", "false", or "KeyError" when an attribute the
\* conjunction reaches is absent (and short-circuits left to right)
viewable_image(tag) ==
  IF tag.name # "img" THEN "false"
  ELSE IF ~HasAttr(tag, "src") THEN "KeyError"
  ELSE IF ~regex_not_viewable(lower(tag.attrs.src)) THEN "false"
  ELSE IF ~regex_viewable(lower(tag.attrs.src)) THEN "false"
  ELSE IF ~HasAttr(tag, "alt") THEN "KeyError"
  ELSE IF tag.attrs.alt # "dagger" THEN "true"
  ELSE "false"

\* ------------------------------------------------------------ article page
\* A rendered article page: page.infobox is <<>> or <<table>>, the first
\* <table class="infobox"> of the page (what find returns); table.cell is <<>>
\* or <<cell>>, its first <td class="infobox-image">; cell.a is <<>> or <<a>>,
\* the first <a> below the cell; table.before is the number of page.elems that
\* precede the table in document order. page.elems are the other elements in
\* document order; an element has a name, attrs, its direct parent, and link,
\* <<>> or <<href>> of the nearest <a href> around it.

\* page_content.find_all(viewable_image)[0].parent["href"], line 75: find_all
\* calls the predicate on every element of the page, [0] raises IndexError on
\* an empty list, and ["href"] raises KeyError on a parent without href
fallback_scan(page) ==
  IF \E i \in 1..Len(page.elems) : viewable_image(page.elems[i]) = "KeyError"
  THEN Raise("KeyError")
  ELSE LET found == SelectSeq(page.elems, LAMBDA t : viewable_image(t) = "true")
       IN IF found = <<>> THEN Raise("IndexError")
          ELSE IF ~HasAttr(found[1].parent, "href") THEN Raise("KeyError")
          ELSE Ok(found[1].parent.attrs.href)

\* image_element.findChild("a")["href"], line 73: findChild returns None when
\* the cell holds no <a>, and None["href"] raises TypeError
infobox_link(cell) ==
  IF cell.a = <<>> THEN Raise("TypeError")
  ELSE IF ~HasAttr(cell.a[1], "href") THEN Raise("KeyError")
  ELSE Ok(cell.a[1].attrs.href)

\* locate, were the fallback scan preferred whenever an image precedes the table
locate_scan_first(page) ==
  IF page.infobox = <<>>
  THEN [res |-> Raise("AttributeError"), scan |-> FALSE]
  ELSE IF page.infobox[1].cell # <<>> /\ page.infobox[1].before = 0
  THEN [res |-> infobox_link(page.infobox[1].cell[1]), scan |-> FALSE]
  ELSE [res |-> fallback_scan(page), scan |-> TRUE]

\* lines 67-75 of get_wiki_image_url: res is the image page reference or the
\* exception, scan tells whether find_all(viewable_image) was called. Line 68
\* calls find on the result of line 67, which is None without an infobox table.
locate(page) ==
  IF page.infobox = <<>>
  THEN [res |-> Raise("AttributeError"), scan |-> FALSE]
  ELSE IF page.infobox[1].cell # <<>>
  THEN [res |-> infobox_link(page.infobox[1].cell[1]), scan |-> FALSE]
  ELSE [res |-> fallback_scan(page), scan |-> TRUE]

\* -------------------------------------------------- image description page
\* image_page.fullImageLink is <<>> or <<div>>, the first
\* <div class="fullImageLink">; div.a is <<>> or <<a>>; a.img is <<>> or <<img>>.

\* lines 83-84: image_parent.find("a").find("img")["src"]
full_image_src(image_page) ==
  IF image_page.fullImageLink = <<>> THEN Raise("AttributeError")
  ELSE IF image_page.fullImageLink[1].a = <<>> THEN Raise("AttributeError")
  ELSE IF image_page.fullImageLink[1].a[1].img = <<>> THEN Raise("TypeError")
  ELSE IF ~HasAttr(image_page.fullImageLink[1].a[1].img[1], "src") THEN Raise("KeyError")
  ELSE Ok(image_page.fullImageLink[1].a[1].img[1].attrs.src)

\* "https:" + image_url
HttpsColon == <<"h","t","t","p","s",":">>

\* normalize, were the test re.match("http", image_url)
normalize_if_not_prefixed(src) ==
  IF ~LitAt(<<"h","t","t","p">>, src, 1) THEN HttpsColon \o src ELSE src

\* lines 85-87
normalize(src) == IF ~search_http(src) THEN HttpsColon \o src ELSE src

\* lines 83-87 of get_wiki_image_url
extract(image_page) ==
  LET r == full_image_src(image_page)
  IN IF r.ok THEN Ok(normalize(r.val)) ELSE r

\* ---------------------------------------------------------------- search
\* first_page_id, were the index -1
last_page_id(body) ==
  IF "query" \notin DOMAIN body THEN Raise("KeyError")
  ELSE IF body.query.search = <<>> THEN Raise("IndexError")
  ELSE Ok(body.query.search[Len(body.query.search)].pageid)

\* response["query"]["search"][0]["pageid"], line 43
first_page_id(body) ==
  IF "query" \notin DOMAIN body THEN Raise("KeyError")
  ELSE IF body.query.search = <<>> THEN Raise("IndexError")
  ELSE Ok(body.query.search[1].pageid)

\* ------------------------------------------------------------------ inputs
Terms == {"Snoop Dogg", "washington"}
PageIds == {7, 9}

RECURSIVE SeqsUpTo(_, _)
\* the sequences over S of length at most n
SeqsUpTo(S, n) ==
  IF n = 0 THEN {<<>>}
  ELSE LET shorter == SeqsUpTo(S, n - 1)
       IN shorter \cup {Append(q, x) : q \in {r \in shorter : Len(r) = n - 1}, x \in S}

ConnectionError == [kind |-> "ConnectionError"]

\* what the search endpoint may answer: no answer, a body that is not JSON, an
\* API error object (no "query" key), or a ranked list of entries
SearchResponses ==
  {ConnectionError, [kind |-> "text"],
   [kind |-> "json", body |-> [error |-> "badvalue"]]}
  \cup {[kind |-> "json", body |-> [query |-> [search |-> es]]] :
          es \in SeqsUpTo({[pageid |-> n] : n \in PageIds}, MaxResults)}

sJPG == <<"a",".","J","P","G">>
sPng == <<"b",".","p","n","g">>
sJpeg == <<"c",".","j","p","e","g">>
sGif == <<"d",".","g","i","f">>
sSvg == <<"p",".","s","v","g">>
sSvgPng == <<"p",".","s","v","g",".","p","n","g">>
sUpperSvgPng == <<"p",".","S","V","G",".","p","n","g">>
sTxt == <<"a",".","t","x","t">>
sBarePng == <<"m","a","p","n","g">>
sPngNewline == <<"b",".","p","n","g","\n">>
sPngQuery == <<"b",".","p","n","g","?","x">>
sEmpty == <<>>

PageSrcs == {sJPG, sPng, sJpeg, sGif, sSvg, sSvgPng, sUpperSvgPng, sTxt,
             sBarePng, sPngNewline, sPngQuery, sEmpty}
Alts == {"foo", "dagger", "Dagger", ""}

href1 == "/wiki/File:X.jpg"
href2 == "/wiki/File:Y.png"
href3 == "/wiki/File:Z.gif"

\* the element is the child of <a href=h>
InLink(h) == [parent |-> [name |-> "a", attrs |-> [href |-> h]], link |-> <<h>>]
\* the element is the child of a <span> that is the child of <a href=h>
InSpanInLink(h) ==
  [parent |-> [name |-> "span", attrs |-> [typeof |-> "mw:File"]], link |-> <<h>>]
\* the element is the child of a <span> and no link is around it
Unlinked ==
  [parent |-> [name |-> "span", attrs |-> [typeof |-> "mw:File"]], link |-> <<>>]

Placements == {InLink(href1), InLink(href2), InSpanInLink(href1), Unlinked}

Elem(name, attrs, place) ==
  [name |-> name, attrs |-> attrs, parent |-> place.parent, link |-> place.link]

Img(src, alt, place) == Elem("img", [src |-> src, alt |-> alt], place)

\* the elements the longer pages are built from
CoreTags ==
  { Elem("div", [id |-> "toc"], Unlinked),
    Img(sJPG, "foo", InLink(href1)),
    Img(sPng, "foo", InLink(href2)),
    Img(sGif, "foo", InSpanInLink(href1)),
    Img(sJpeg, "foo", Unlinked),
    Img(sSvgPng, "foo", InLink(href3)),
    Img(sTxt, "foo", InLink(href3)),
    Img(sJPG, "dagger", InLink(href3)),
    Elem("img", [alt |-> "foo"], InLink(href3)),
    Elem("img", [src |-> sJPG], InLink(href3)) }

\* every combination of source path, alternate text and placement, as an img
\* and as a non-img element with the same attributes
RichTags ==
  {Elem(n, [src |-> s, alt |-> a], p) :
     n \in {"img", "input"}, s \in PageSrcs, a \in Alts, p \in Placements}

Anchors == {[name |-> "a", attrs |-> [href |-> href3]],
            [name |-> "a", attrs |-> [id |-> "top"]]}
Cells == {[a |-> <<>>]} \cup {[a |-> <<x>>] : x \in Anchors}

\* the infobox table placed first or last among the n other elements
Infoboxes(n) ==
  {<<>>} \cup {<<[cell |-> c, before |-> b]>> :
                 c \in {<<>>} \cup {<<x>> : x \in Cells}, b \in {0, n}}

PagesOver(tags, n) ==
  UNION {{[infobox |-> ib, elems |-> es] : ib \in Infoboxes(Len(es))} :
           es \in SeqsUpTo(tags, n)}

ArticlePages == PagesOver(CoreTags, MaxElems) \cup PagesOver(RichTags, 1)

Html(doc) == [kind |-> "html", doc |-> doc]

ArticleResponses == {ConnectionError} \cup {Html(p) : p \in ArticlePages}

uRelative == <<"/","/","u","/","f",".","p","n","g">>
uHttps == <<"h","t","t","p","s",":","/","/","u","/","f",".","j","p","g">>
uHttp == <<"h","t","t","p",":","/","/","u","/","f",".","j","p","g">>
uRelativeHttpInPath == <<"/","/","u","/","h","t","t","p",".","p","n","g">>
uRelativeSvgPng == <<"/","/","u","/","f",".","s","v","g",".","p","n","g">>
uUpperScheme == <<"H","T","T","P",":","/","/","u","/","f",".","p","n","g">>
uPath == <<"/","f",".","p","n","g">>

FullImageSrcs ==
  {uRelative, uHttps, uHttp, uRelativeHttpInPath, uRelativeSvgPng,
   uUpperScheme, uPath, sEmpty}

FullImage(attrs) ==
  [fullImageLink |-> <<[a |-> <<[img |-> <<[name |-> "img", attrs |-> attrs]>>]>>]>>]

ImagePages ==
  { [fullImageLink |-> <<>>],
    [fullImageLink |-> <<[a |-> <<>>]>>],
    [fullImageLink |-> <<[a |-> <<[img |-> <<>>]>>]>>],
    FullImage([alt |-> "File:X.jpg"]) }
  \cup {FullImage([src |-> u, alt |-> "File:X.jpg"]) : u \in FullImageSrcs}

ImageResponses == {ConnectionError} \cup {Html(p) : p \in ImagePages}

\* a few answers of each kind, used where another stage's answers vary in full
FewSearch ==
  {[kind |-> "json", body |-> [query |-> [search |-> <<[pageid |-> 7]>>]]]}
FewArticle ==
  {Html([infobox |-> <<[cell |-> <<[a |-> <<[name |-> "a", attrs |-> [href |-> href3]]>>]>>,
                        before |-> 0]>>,
         elems |-> <<>>]),
   Html([infobox |-> <<[cell |-> <<>>, before |-> 0]>>,
         elems |-> <<Img(sJPG, "foo", InLink(href1))>>])}
FewImage == {Html(FullImage([src |-> uRelative, alt |-> "File:X.jpg"]))}

World(t, s, a, i) == [term |-> t, search |-> s, article |-> a, image |-> i]

\* the runs explored: one stage's answers vary in full, the others over a few
Worlds ==
  {World(t, s, a, i) :
     t \in Terms, s \in SearchResponses, a \in FewArticle \cup {ConnectionError},
     i \in FewImage}
  \cup {World("Snoop Dogg", s, a, i) :
          s \in FewSearch, a \in ArticleResponses, i \in FewImage \cup {ConnectionError}}
  \cup {World("Snoop Dogg", s, a, i) :
          s \in FewSearch, a \in FewArticle, i \in ImageResponses}

\* ----------------------------------------------------------------- requests
search_url == "https://en.wikipedia.org/w/api.php"
base_url == "https://en.wikipedia.org/"

\* get(url=base_url, params=search_params), lines 32-41
SearchGet(term) ==
  [url |-> search_url,
   params |-> [action |-> "query", list |-> "search", srsearch |-> term,
               format |-> "json"]]
\* get(url=base_url + "?curid=" + str(page_id)), lines 59-61
ArticleGet(id) == [url |-> base_url, curid |-> id]
\* get(url=base_url + image_url), lines 80-82
ImageGet(ref) == [url |-> base_url, path |-> ref]

\* ------------------------------------------------------------------ actions
Init ==
  /\ world \in Worlds
  /\ pc = "main"
  /\ page_id = <<>>
  /\ image_ref = <<>>
  /\ image_url = <<>>
  /\ requests = <<>>
  /\ scanned = FALSE
  /\ stdout = <<>>
  /\ err = NoErr

\* an exception nobody catches: the interpreter ends the run
Abort(e) ==
  /\ pc' = "failed"
  /\ err' = e

\* main calls get_wiki_page_id(argv[1]), which sends the search request
\* (lines 111, 32-41)
SearchRequest ==
  /\ pc = "main"
  /\ requests' = Append(requests, SearchGet(world.term))
  /\ pc' = "search_sent"
  /\ UNCHANGED <<world, page_id, image_ref, image_url, scanned, stdout, err>>

\* the search request returns or raises; lines 42-44 and the return to main
SearchResponse ==
  /\ pc = "search_sent"
  /\ IF world.search.kind = "ConnectionError"
     THEN Abort("ConnectionError") /\ UNCHANGED page_id
     ELSE IF world.search.kind # "json"
     THEN Abort("JSONDecodeError") /\ UNCHANGED page_id
     ELSE LET r == first_page_id(world.search.body)
          IN IF r.ok
             THEN page_id' = <<r.val>> /\ pc' = "have_page_id" /\ UNCHANGED err
             ELSE Abort(r.exc) /\ UNCHANGED page_id
  /\ UNCHANGED <<world, image_ref, image_url, requests, scanned, stdout>>

\* main calls get_wiki_image_url(page_id), which requests the article
\* (lines 112, 56-61)
ArticleRequest ==
  /\ pc = "have_page_id"
  /\ requests' = Append(requests, ArticleGet(page_id[1]))
  /\ pc' = "article_sent"
  /\ UNCHANGED <<world, page_id, image_ref, image_url, scanned, stdout, err>>

\* the article request returns or raises; lines 58-75
Locate ==
  /\ pc = "article_sent"
  /\ IF world.article.kind = "ConnectionError"
     THEN Abort("ConnectionError") /\ UNCHANGED <<image_ref, scanned>>
     ELSE LET l == locate(world.article.doc)
          IN /\ scanned' = l.scan
             /\ IF l.res.ok
                THEN image_ref' = <<l.res.val>> /\ pc' = "located" /\ UNCHANGED err
                ELSE Abort(l.res.exc) /\ UNCHANGED image_ref
  /\ UNCHANGED <<world, page_id, image_url, requests, stdout>>

\* lines 79-82: the request for the image description page
ImagePageRequest ==
  /\ pc = "located"
  /\ requests' = Append(requests, ImageGet(image_ref[1]))
  /\ pc' = "image_sent"
  /\ UNCHANGED <<world, page_id, image_ref, image_url, scanned, stdout, err>>

\* the image page request returns or raises; lines 79-87 and the return to main
Extract ==
  /\ pc = "image_sent"
  /\ IF world.image.kind = "ConnectionError"
     THEN Abort("ConnectionError") /\ UNCHANGED image_url
     ELSE LET r == extract(world.image.doc)
          IN IF r.ok
             THEN image_url' = <<r.val>> /\ pc' = "returned" /\ UNCHANGED err
             ELSE Abort(r.exc) /\ UNCHANGED image_url
  /\ UNCHANGED <<world, page_id, image_ref, requests, scanned, stdout>>

\* Output, were main to catch the exception and print what it has
Output_after_failure ==
  /\ pc \in {"returned", "failed"}
  /\ stdout = <<>>
  /\ stdout' = Append(stdout, IF image_url # <<>> THEN image_url[1] ELSE <<>>)
  /\ pc' = IF pc = "failed" THEN "failed" ELSE "done"
  /\ UNCHANGED <<world, page_id, image_ref, image_url, requests, scanned, err>>

\* print(image_url), line 113, and main returns
Output ==
  /\ pc = "returned"
  /\ stdout' = Append(stdout, image_url[1])
  /\ pc' = "done"
  /\ UNCHANGED <<world, page_id, image_ref, image_url, requests, scanned, err>>

Next ==
  \/ SearchRequest
  \/ SearchResponse
  \/ ArticleRequest
  \/ Locate
  \/ ImagePageRequest
  \/ Extract
  \/ Output

Spec == Init /\ [][Next]_vars

TypeOK ==
  /\ pc \in {"main", "search_sent", "have_page_id", "article_sent", "located",
             "image_sent", "returned", "done", "failed"}
  /\ Len(page_id) <= 1
  /\ Len(stdout) <= 1

\* ------------------------------------------------------- terms of the claims
\* the article page this run is served, and whether one is served
PageServed == world.article.kind = "html"
Page == world.article.doc

\* the locator half (lines 58-75) has finished, with a result or an exception
LocatorFinished == Len(requests) >= 2 /\ pc # "article_sent"
\* the run ended in the locator half
LocatorFailed == pc = "failed" /\ Len(requests) = 2
\* the extractor half (lines 79-87) has finished
ExtractorFinished == Len(requests) >= 3 /\ pc # "image_sent"

Qualifies(t) == viewable_image(t) = "true"
HasQualifying(page) == \E i \in 1..Len(page.elems) : Qualifies(page.elems[i])
\* the first element in document order that satisfies the predicate
FirstQualifying(page) ==
  page.elems[CHOOSE i \in 1..Len(page.elems) :
               /\ Qualifies(page.elems[i])
               /\ \A j \in 1..(i - 1) : ~Qualifies(page.elems[j])]

HasTable(page) == page.infobox # <<>>
HasCell(page) == HasTable(page) /\ page.infobox[1].cell # <<>>
\* the image cell holds a link: an <a> that carries an href
HasCellLink(page) ==
  /\ HasCell(page)
  /\ page.infobox[1].cell[1].a # <<>>
  /\ "href" \in DOMAIN page.infobox[1].cell[1].a[1].attrs
CellHref(page) == page.infobox[1].cell[1].a[1].attrs.href

\* s contains sub, by comparing every window of s with sub
ContainsSub(sub, s) ==
  \E i \in 1..Len(s) :
     i + Len(sub) - 1 <= Len(s) /\ SubSeq(s, i, i + Len(sub) - 1) = sub
\* s begins with pre
BeginsWith(pre, s) == Len(s) >= Len(pre) /\ SubSeq(s, 1, Len(pre)) = pre

\* the file extension of a path: what follows its last dot (<<>> without a dot)
FileExtension(s) ==
  IF \E i \in 1..Len(s) : s[i] = "."
  THEN LET d == CHOOSE i \in 1..Len(s) :
                  s[i] = "." /\ \A j \in (i + 1)..Len(s) : s[j] # "."
       IN SubSeq(s, d + 1, Len(s))
  ELSE <<>>

\* ------------------------------------------------------------------ claims

\* C1: a page with no infobox table but with a qualifying image does not fail
\* in the locator: the fallback scan runs and yields the link of the first
\* qualifying image.
C1_NoTableFallsBack ==
  (PageServed /\ LocatorFinished /\ ~HasTable(Page) /\ HasQualifying(Page))
    => /\ ~LocatorFailed
       /\ scanned
       /\ FirstQualifying(Page).link # <<>> => image_ref = FirstQualifying(Page).link

\* C2: when neither the infobox lookup nor the fallback scan has a candidate,
\* the locator ends in NoImageFoundError, before the image page is requested.
C2_NoCandidateIsNoImageFoundError ==
  (PageServed /\ LocatorFinished /\ ~HasCell(Page) /\ ~HasQualifying(Page))
    => /\ LocatorFailed
       /\ err = "NoImageFoundError"

\* C3: for an element with src and alt, viewable_image is true exactly when it
\* is an img, the file extension of src is jpg, jpeg, gif or png whatever the
\* case, src does not contain svg whatever the case, and alt is not dagger.
C3_ViewableIffExtension ==
  (PageServed /\ scanned)
    => \A i \in 1..Len(Page.elems) :
         LET t == Page.elems[i]
         IN ({"src", "alt"} \subseteq DOMAIN t.attrs)
              => (Qualifies(t) <=>
                    /\ t.name = "img"
                    /\ FileExtension(lower(t.attrs.src)) \in ViewableAlternatives
                    /\ ~ContainsSub(<<"s","v","g">>, lower(t.attrs.src))
                    /\ t.attrs.alt # "dagger")

\* C4: the URL returned and printed begins with http: or https:.
C4_SchemePresent ==
  (pc \in {"returned", "done"})
    => \/ BeginsWith(<<"h","t","t","p",":">>, image_url[1])
       \/ BeginsWith(<<"h","t","t","p","s",":">>, image_url[1])

\* C5: an empty search result list ends the run in NoResultsError, and no
\* article request, image page request or output follows.
C5_EmptyResultsIsNoResultsError ==
  (/\ world.search.kind = "json"
   /\ "query" \in DOMAIN world.search.body
   /\ world.search.body.query.search = <<>>
   /\ Len(requests) >= 1 /\ pc # "search_sent")
    => /\ pc = "failed"
       /\ err = "NoResultsError"
       /\ Len(requests) = 1
       /\ stdout = <<>>

\* What the code does keep of C5: the run ends there, in IndexError.
EmptyResultsEndTheRun ==
  (/\ world.search.kind = "json"
   /\ "query" \in DOMAIN world.search.body
   /\ world.search.body.query.search = <<>>
   /\ Len(requests) >= 1 /\ pc # "search_sent")
    => /\ pc = "failed"
       /\ err = "IndexError"
       /\ Len(requests) = 1
       /\ stdout = <<>>

\* C8: with an infobox table that has no image cell, and a qualifying image on
\* the page, the locator yields the link around the first qualifying image
\* (stated for the pages on which that image has a link around it).
C8_FirstQualifyingLink ==
  (PageServed /\ LocatorFinished /\ HasTable(Page) /\ ~HasCell(Page)
     /\ HasQualifying(Page) /\ FirstQualifying(Page).link # <<>>)
    => /\ ~LocatorFailed
       /\ image_ref = FirstQualifying(Page).link

\* the outcome of each stage on what this run is served
SearchOutcome ==
  IF world.search.kind = "ConnectionError" THEN Raise("ConnectionError")
  ELSE IF world.search.kind # "json" THEN Raise("JSONDecodeError")
  ELSE IF "query" \notin DOMAIN world.search.body THEN Raise("KeyError")
  ELSE IF Len(world.search.body.query.search) = 0 THEN Raise("IndexError")
  ELSE Ok(Head(world.search.body.query.search).pageid)

\* the src of the img in the full-image container, when there is one
FullImageServed ==
  /\ world.image.kind = "html"
  /\ world.image.doc.fullImageLink # <<>>
  /\ world.image.doc.fullImageLink[1].a # <<>>
  /\ world.image.doc.fullImageLink[1].a[1].img # <<>>
  /\ "src" \in DOMAIN world.image.doc.fullImageLink[1].a[1].img[1].attrs
FullImageSrc == world.image.doc.fullImageLink[1].a[1].img[1].attrs.src

\* C6: a failure at any stage ends the run there, nothing is retried, nothing
\* is written to standard output in a failed run, and a URL is written only
\* after all three stages succeeded, and then once.
C6_FailFast ==
  /\ pc = "failed" => stdout = <<>> /\ err # NoErr
  /\ err # NoErr => pc = "failed"
  /\ Len(stdout) <= 1
  /\ stdout # <<>>
       => /\ pc = "done"
          /\ Len(requests) = 3
          /\ page_id # <<>> /\ image_ref # <<>> /\ image_url # <<>>
          /\ SearchOutcome.ok
          /\ PageServed /\ FullImageServed
          /\ stdout = image_url
  \* a stage that failed is the last thing the run did
  /\ (Len(requests) >= 1 /\ pc # "search_sent" /\ ~SearchOutcome.ok)
       => pc = "failed" /\ Len(requests) = 1
  /\ (LocatorFinished /\ image_ref = <<>>)
       => pc = "failed" /\ Len(requests) = 2
  /\ (ExtractorFinished /\ image_url = <<>>)
       => pc = "failed" /\ Len(requests) = 3
  \* no request is sent twice
  /\ \A i, j \in 1..Len(requests) : requests[i] = requests[j] => i = j

\* C6 witness: the run failed in the extractor, after two stages succeeded
C6_Witness ==
  /\ pc = "failed" /\ Len(requests) = 3
  /\ page_id # <<>> /\ image_ref # <<>> /\ stdout = <<>>

\* C7: when the infobox table has an image cell that holds a link, the locator
\* yields that link's href as it is and the fallback scan is not invoked,
\* whatever other images the page has and wherever they stand.
C7_InfoboxLinkVerbatim ==
  (PageServed /\ LocatorFinished /\ HasCellLink(Page))
    => /\ ~LocatorFailed
       /\ image_ref = <<CellHref(Page)>>
       /\ ~scanned

\* C7 witness: a qualifying image with another link precedes the table
C7_Witness ==
  /\ PageServed /\ pc = "located" /\ HasCellLink(Page)
  /\ Page.infobox[1].before > 0
  /\ HasQualifying(Page)
  /\ FirstQualifying(Page).link # <<>>
  /\ FirstQualifying(Page).link # <<CellHref(Page)>>

\* C9: the extractor's result is https: followed by the source when the source
\* does not contain http, and the source as it is when it does; no svg or
\* extension filter applies, so a .svg.png source that viewable_image rejects
\* is accepted.
C9_Normalization ==
  (FullImageServed /\ ExtractorFinished)
    => /\ pc \in {"returned", "done"}
       /\ IF ContainsSub(<<"h","t","t","p">>, FullImageSrc)
          THEN image_url = <<FullImageSrc>>
          ELSE image_url = <<<<"h","t","t","p","s",":">> \o FullImageSrc>>
       /\ FullImageSrc = uRelative
            => image_url = << <<"h","t","t","p","s",":","/","/","u","/","f",".","p","n","g">> >>
       /\ FullImageSrc = uRelativeSvgPng
            => /\ ~Qualifies(Img(FullImageSrc, "foo", InLink(href1)))
               /\ image_url = <<<<"h","t","t","p","s",":">> \o uRelativeSvgPng>>

\* C9 witness: a protocol-relative .svg.png source came out prefixed
C9_Witness ==
  /\ FullImageServed /\ pc = "done"
  /\ FullImageSrc = uRelativeSvgPng
  /\ BeginsWith(<<"h","t","t","p","s",":","/","/">>, stdout[1])

\* C10: the requests are the search request, then the article request with the
\* page id of the first search entry, then the image page request with the
\* locator's reference, each at most once and each only after the stage before
\* it succeeded; a successful run sends exactly these three.
C10_RequestOrder ==
  /\ Len(requests) <= 3
  /\ Len(requests) >= 1 => requests[1] = SearchGet(world.term)
  /\ Len(requests) >= 2
       => /\ SearchOutcome.ok
          /\ page_id = <<Head(world.search.body.query.search).pageid>>
          /\ requests[2] = ArticleGet(Head(world.search.body.query.search).pageid)
  /\ Len(requests) >= 3
       => /\ PageServed
          /\ image_ref # <<>>
          /\ \/ HasCellLink(Page) /\ image_ref = <<CellHref(Page)>>
             \/ ~HasCell(Page) /\ HasQualifying(Page)
                  /\ image_ref = <<FirstQualifying(Page).parent.attrs.href>>
          /\ requests[3] = ImageGet(image_ref[1])
  /\ pc \in {"returned", "done"} => Len(requests) = 3
  /\ pc \in {"main"} => Len(requests) = 0
  /\ pc \in {"search_sent", "have_page_id"} => Len(requests) = 1
  /\ pc \in {"article_sent", "located"} => Len(requests) = 2
  /\ pc = "image_sent" => Len(requests) = 3

\* C10 witness: a finished run whose search list ranked two different pages
C10_Witness ==
  /\ pc = "done" /\ Len(requests) = 3
  /\ Len(world.search.body.query.search) = 2
  /\ world.search.body.query.search[1] # world.search.body.query.search[2]

====
